---------------------------- MODULE Spec2Model ----------------------------
(***************************************************************************)
(* A model of the tracker bot (src/main.py): the per-user conversation     *)
(* state machine kept in user_states, its history stack, the calendar      *)
(* callbacks and the create-issue calls made on the terminal transitions.  *)
(*                                                                         *)
(* Representation.                                                         *)
(*  - A message text is the sequence of its whitespace separated words,    *)
(*    so that ' '.join(text.split()[1:]) is Tail.  An emoji is written as  *)
(*    an ASCII word in parentheses.  The atom "," stands for a comma that  *)
(*    follows the previous word (", ".join / split(", ")).                 *)
(*  - A Python dict is a function whose DOMAIN is its key set.             *)
(*  - None and the empty string are "" for a question, <<>> for a text.    *)
(*  - answers['audience'] is a reference (an index into the session's      *)
(*    list objects): dict.copy() in save_state is shallow, so snapshots    *)
(*    share the list object with the live answers.                         *)
(*  - Dates are day numbers; the clock counts TicksPerDay ticks per day.   *)
(*    The clock is read where the code reads it; no program state keeps a  *)
(*    clock value across events, so each read draws any instant.           *)
(*  - out is what the last handled event did: the branch taken, the        *)
(*    replies sent, the create_issue calls and the HTTP requests made.     *)
(*  - The Telegram calls (reply_text, delete, answer) are taken to succeed.*)
(***************************************************************************)
EXTENDS Integers, Sequences, FiniteSets, TLC

VARIABLES user_states, out, undo

vars == <<user_states, out, undo>>

(***************************************************************************)
(* Bounds of the exploration.                                              *)
(***************************************************************************)
MaxExtra == 1
MaxDate == 1
MaxNow == 2
TicksPerDay == 2
MaxCursor == 1
MaxDeadline == 16

(***************************************************************************)
(* Generic helpers: sequences, dicts.                                      *)
(***************************************************************************)
Range(s) == {s[i] : i \in DOMAIN s}

Min(a, b) == IF a <= b THEN a ELSE b

EmptyDict == [k \in {} |-> 0]

Put(d, k, v) == [j \in (DOMAIN d) \cup {k} |-> IF j = k THEN v ELSE d[j]]

Has(d, k) == k \in DOMAIN d

\* list.index-free membership test of Python's "x in list"
InList(x, s) == \E i \in DOMAIN s : s[i] = x

(***************************************************************************)
(* Catalogs (module constants of main.py).                                 *)
(***************************************************************************)
AUDIENCE_CHOICES ==
    << <<"(busts)", "Users">>,
       <<"(car)", "Drivers">>,
       <<"(office)", "Partner", "park">> >>

DONE_SELECTION == <<"(check)", "Done">>

REGION_CHOICES ==
    << <<"(globe-am)", "All", "regions">>,
       <<"(globe-af)", "South&Central", "Africa">>,
       <<"(globe-af)", "West", "Africa">>,
       <<"(globe-af)", "EMEA&Eur">>,
       <<"(globe-as)", "MENAP">>,
       <<"(globe-am)", "LatAm">>,
       <<"(globe-af)", "CIS">>,
       <<"(question)", "I", "don't", "know">> >>

REGION_SPECIFIC_QUESTIONS == <<"Which country?", "Which city?">>

\* the questions, by their leading words
COMMON_QUESTIONS ==
    <<"What is the task about?",
      "What problem?",
      "RTB",
      "Key message",
      "What indicator?">>

FINAL_QUESTIONS ==
    <<"Which segment?",
      "What types?">>

USER_COMMUNICATION_TYPES ==
    << <<"(phone)", "Push">>,
       <<"(speech)", "SMS">>,
       <<"(phone-arrow)", "WhatsApp">>,
       <<"(picture)", "Banner">>,
       <<"(book)", "Stories">>,
       <<"(tv)", "Fullscreen">>,
       <<"(target)", "Plashka">>,
       <<"(map)", "Object", "over", "the", "map">>,
       <<"(radio)", "Promo", "button">>,
       <<"(ticket)", "Promo", "card">>,
       <<"(cards)", "Upsell", "card">>,
       <<"(sparkles)", "Splashscreen">>,
       <<"(question)", "I", "don't", "know">> >>

DRIVER_COMMUNICATION_TYPES ==
    << <<"(phone)", "Push">>,
       <<"(speech)", "SMS">>,
       <<"(phone-arrow)", "WhatsApp">>,
       <<"(book)", "Stories">>,
       <<"(tv)", "Fullscreen">>,
       <<"(newspaper)", "Feed">>,
       <<"(map)", "Object", "over", "the", "map">>,
       <<"(question)", "I", "don't", "know">> >>

NAVIGATION_BUTTONS == << <<"(left)", "Go", "back">>, <<"(cross)", "Cancel">> >>

GO_BACK == NAVIGATION_BUTTONS[1]

CANCEL == NAVIGATION_BUTTONS[2]

CREATE_TASK == <<"(memo)", "Create", "Task">>

EMPTY_TICKET == <<"(page)", "Empty", "ticket">>

DEFAULT_QUEUE == "YANGOCRM"

SUMMARY_LIMIT == 100

\* the "audience" and the other fixed keys of answers
K_AUDIENCE == "audience"

K_REGION == "region"

K_DEADLINE == "deadline"

K_PRIORITY == "priority"

(***************************************************************************)
(* Text helpers.                                                           *)
(***************************************************************************)
\* ' '.join(message_text.split()[1:])
StripFirstWord(text) == IF text = <<>> THEN <<>> ELSE Tail(text)

\* a word that stands for LongWordLen characters without a space
LongWord == "x..x"

LongWordLen == 120

\* len(word)
WordLen(word) == IF word = LongWord THEN LongWordLen ELSE Len(word)

RECURSIVE CharLen(_)
\* len(text): the words' characters plus one space between two words; the
\* comma atom follows its word without a space
CharLen(text) ==
    IF text = <<>> THEN 0
    ELSE WordLen(Head(text))
         + (IF Len(text) > 1 /\ text[2] # "," THEN 1 ELSE 0)
         + CharLen(Tail(text))

\* text[:n], kept as the text and the number of its leading characters
Slice(text, n) == [text |-> text, chars |-> Min(CharLen(text), n)]

RECURSIVE Join(_)
\* ", ".join(list)
Join(list) ==
    IF list = <<>> THEN <<>>
    ELSE IF Len(list) = 1 THEN list[1]
    ELSE list[1] \o <<",">> \o Join(Tail(list))

RECURSIVE SplitFrom(_, _)
SplitFrom(text, acc) ==
    IF text = <<>> THEN <<acc>>
    ELSE IF Head(text) = "," THEN <<acc>> \o SplitFrom(Tail(text), <<>>)
    ELSE SplitFrom(Tail(text), Append(acc, Head(text)))

\* text.split(", ")
Split(text) == SplitFrom(text, <<>>)


(***************************************************************************)
(* calculate_priority.                                                     *)
(***************************************************************************)
\* (deadline - now).days: deadline is midnight of the deadline date, now is
\* the current instant; timedelta.days is the floor of the difference
DaysUntil(deadline, now) == (deadline * TicksPerDay - now) \div TicksPerDay

\* datetime.now(timezone.utc).date()
Today(now) == now \div TicksPerDay

calculate_priority(deadline, now) ==
    LET days_until_deadline == DaysUntil(deadline, now)
    IN  IF days_until_deadline < 3 THEN "blocker"
        ELSE IF days_until_deadline < 7 THEN "critical"
        ELSE IF days_until_deadline < 14 THEN "major"
        ELSE "normal"

\* str.upper() on the four tiers
Upper(p) ==
    CASE p = "blocker" -> "BLOCKER"
      [] p = "critical" -> "CRITICAL"
      [] p = "major" -> "MAJOR"
      [] p = "normal" -> "NORMAL"
      [] OTHER -> p

(***************************************************************************)
(* FormState.                                                              *)
(***************************************************************************)
\* datetime.now().year / .month at construction
InitCursor == [year |-> 2025, month |-> 12]

NewFormState ==
    [answers |-> EmptyDict,
     current_question |-> "",
     selected_audience |-> FALSE,
     selected_region |-> <<>>,
     questions_queue |-> <<>>,
     awaiting_deadline |-> FALSE,
     cursor |-> InitCursor,
     previous_states |-> <<>>,
     awaiting_communication_types |-> FALSE,
     communication_types |-> <<>>,
     all_questions_answered |-> FALSE,
     is_empty_ticket |-> FALSE,
     lists |-> <<>>]

\* the state_copy dict of save_state: answers.copy() copies the dict, not the
\* list object answers['audience'] refers to
StateCopy(fs) ==
    [answers |-> fs.answers,
     current_question |-> fs.current_question,
     selected_audience |-> fs.selected_audience,
     selected_region |-> fs.selected_region,
     questions_queue |-> fs.questions_queue,
     awaiting_deadline |-> fs.awaiting_deadline,
     awaiting_communication_types |-> fs.awaiting_communication_types,
     communication_types |-> fs.communication_types,
     all_questions_answered |-> fs.all_questions_answered]

save_state(fs) ==
    [fs EXCEPT !.previous_states = Append(@, StateCopy(fs))]

\* references to list objects held by the live answers and by the snapshots
LiveRefs(answers, snapshots) ==
    (IF Has(answers, K_AUDIENCE) THEN {answers[K_AUDIENCE]} ELSE {})
    \cup {snapshots[i].answers[K_AUDIENCE] :
            i \in {j \in DOMAIN snapshots : Has(snapshots[j].answers, K_AUDIENCE)}}

\* a list object no reference names any more is freed
Collect(lists, refs) ==
    SubSeq(lists, 1, IF refs = {} THEN 0
                     ELSE CHOOSE m \in refs : \A r \in refs : r <= m)

\* Restore leaving awaiting_deadline as it is in the live record
RestoreKeepsDeadlineFlag(fs) ==
    LET n == Len(fs.previous_states)
        previous_state == fs.previous_states[n]
        rest == SubSeq(fs.previous_states, 1, n - 1)
    IN  [fs EXCEPT
           !.previous_states = rest,
           !.answers = previous_state.answers,
           !.current_question = previous_state.current_question,
           !.selected_audience = previous_state.selected_audience,
           !.selected_region = previous_state.selected_region,
           !.questions_queue = previous_state.questions_queue,
           !.awaiting_communication_types = previous_state.awaiting_communication_types,
           !.communication_types = previous_state.communication_types,
           !.all_questions_answered = previous_state.all_questions_answered,
           !.lists = Collect(fs.lists, LiveRefs(previous_state.answers, rest))]

\* go_back after the emptiness test: pop the last snapshot and restore it
Restore(fs) ==
    LET n == Len(fs.previous_states)
        previous_state == fs.previous_states[n]
        rest == SubSeq(fs.previous_states, 1, n - 1)
    IN  [fs EXCEPT
           !.previous_states = rest,
           !.answers = previous_state.answers,
           !.current_question = previous_state.current_question,
           !.selected_audience = previous_state.selected_audience,
           !.selected_region = previous_state.selected_region,
           !.questions_queue = previous_state.questions_queue,
           !.awaiting_deadline = previous_state.awaiting_deadline,
           !.awaiting_communication_types = previous_state.awaiting_communication_types,
           !.communication_types = previous_state.communication_types,
           !.all_questions_answered = previous_state.all_questions_answered,
           !.lists = Collect(fs.lists, LiveRefs(previous_state.answers, rest))]

\* FormState.go_back: the record afterwards (unchanged when it returns False)
go_back(fs) == IF fs.previous_states = <<>> THEN fs ELSE Restore(fs)

\* get_next_question leaving the question it returns at the head of the queue
get_next_question_unpopped(fs) ==
    IF fs.questions_queue = <<>>
    THEN [fs EXCEPT !.all_questions_answered = TRUE]
    ELSE [fs EXCEPT !.current_question = Head(fs.questions_queue)]

\* FormState.get_next_question: the record afterwards; the value returned is
\* its current_question, or None when the queue was empty
get_next_question(fs) ==
    IF fs.questions_queue = <<>>
    THEN [fs EXCEPT !.all_questions_answered = TRUE]
    ELSE [fs EXCEPT !.current_question = Head(fs.questions_queue),
                    !.questions_queue = Tail(fs.questions_queue)]

\* form_state.answers.get('audience', []): the content of the list object
Audience(fs) ==
    IF Has(fs.answers, K_AUDIENCE) THEN fs.lists[fs.answers[K_AUDIENCE]] ELSE <<>>

\* answers['audience'] = [clean_text]: a new list object
SetAudience(fs, clean_text) ==
    [fs EXCEPT !.lists = Append(@, <<clean_text>>),
               !.answers = Put(@, K_AUDIENCE, Len(fs.lists) + 1)]

\* answers['audience'].append(clean_text): the list object changes in place
AppendAudience(fs, clean_text) ==
    [fs EXCEPT !.lists[fs.answers[K_AUDIENCE]] = Append(@, clean_text)]

\* CommCatalog looking for the audience option as displayed, emoji included
CommCatalogRaw(fs) ==
    IF InList(AUDIENCE_CHOICES[1], Audience(fs))
    THEN USER_COMMUNICATION_TYPES
    ELSE DRIVER_COMMUNICATION_TYPES

\* USER_COMMUNICATION_TYPES if "Users" in answers.get('audience', []) else ...
CommCatalog(fs) ==
    IF InList(<<"Users">>, Audience(fs))
    THEN USER_COMMUNICATION_TYPES
    ELSE DRIVER_COMMUNICATION_TYPES

(***************************************************************************)
(* YandexTracker: the outcome of the two HTTP requests is the environment's *)
(* choice oc = [cred, post, body, fields].                                  *)
(*   cred: "token"      200 with an access_token                            *)
(*         "no_token"   200 whose JSON has no access_token                  *)
(*         "bad_status" a non-success status                                *)
(*         "error"      the request raises (connection error, timeout)      *)
(*   post: "issue"      2xx, JSON with the issue key                        *)
(*         "empty"      2xx, an empty JSON object                           *)
(*         "http_error" a non-success status, with body and fields          *)
(*         "error"      the request raises (connection error, timeout)      *)
(*   body: "not_json", "json_other" (JSON, not an object), "json_dict"      *)
(*   fields: the keys of the JSON object among errors, errorMessages,       *)
(*         message                                                          *)
(***************************************************************************)
Outcome(cred, post, body, fields) ==
    [cred |-> cred, post |-> post, body |-> body, fields |-> fields]

\* _get_iam_token: "raise", or the value returned
get_iam_token(oc) ==
    CASE oc.cred = "token" -> "token"
      [] oc.cred = "no_token" -> "None"
      [] OTHER -> "raise"

\* _format_error_message, by the part of the body the message is made of
format_error_message(oc) ==
    IF oc.body = "json_dict"
    THEN IF "errors" \in oc.fields THEN "errors"
         ELSE IF "errorMessages" \in oc.fields THEN "errorMessages"
         ELSE IF "message" \in oc.fields THEN "message"
         ELSE "str(error_data)"
    ELSE "str(error_data)"

\* the error_message of create_issue on a non-success status
error_message(oc) ==
    IF oc.body = "not_json" THEN "response.text" ELSE format_error_message(oc)

\* create_issue: the requests sent, what the call does ("issue", "empty" or
\* "raise") and the text of the exception
create_issue(queue, summary, description, priority, oc) ==
    LET iam_token == get_iam_token(oc)
        get == [method |-> "GET", url |-> "METADATA_URL", auth |-> "",
                queue |-> "", summary |-> Slice(<<>>, 0), description |-> <<>>,
                priority |-> ""]
        post == [method |-> "POST", url |-> "/v2/issues/", auth |-> iam_token,
                 queue |-> IF queue = "" THEN DEFAULT_QUEUE ELSE queue,
                 summary |-> summary, description |-> description,
                 priority |-> priority]
    IN  IF iam_token = "raise"
        THEN [requests |-> <<get>>, result |-> "raise",
              error |-> <<"metadata", oc.cred>>]
        ELSE IF oc.post = "error"
        THEN [requests |-> <<get, post>>, result |-> "raise",
              error |-> <<"request", "error">>]
        ELSE IF oc.post = "http_error"
        THEN [requests |-> <<get, post>>, result |-> "raise",
              error |-> <<"API Error", error_message(oc)>>]
        ELSE [requests |-> <<get, post>>, result |-> oc.post, error |-> <<>>]

(***************************************************************************)
(* Ticket assembly.                                                        *)
(***************************************************************************)
Line(kind, text) == [kind |-> kind, text |-> text]

\* "aud in choice" on strings: the words of aud occur in a row in choice
IsInfix(a, b) ==
    \E i \in 0..(Len(b) - Len(a)) : SubSeq(b, i + 1, i + Len(a)) = a

RECURSIVE FirstMatch(_, _)
\* the first catalog choice the value occurs in (the for ... break loops)
FirstMatch(value, choices) ==
    IF choices = <<>> THEN <<>>
    ELSE IF IsInfix(value, Head(choices)) THEN <<Head(choices)>>
    ELSE FirstMatch(value, Tail(choices))

RECURSIVE AudienceLines(_)
AudienceLines(audience) ==
    IF audience = <<>> THEN <<>>
    ELSE LET m == FirstMatch(Head(audience), AUDIENCE_CHOICES)
         IN  (IF m = <<>> THEN <<>> ELSE <<Line("audience", m[1])>>)
             \o AudienceLines(Tail(audience))

COUNTRY_FLAGS ==
    [c \in {<<"Russia">>, <<"Kazakhstan">>, <<"Belarus">>, <<"Ukraine">>,
            <<"Germany">>, <<"France">>, <<"Spain">>, <<"Italy">>,
            <<"United", "Kingdom">>} |-> <<"(flag)">> \o c]

\* f"{flag}{country}" with COUNTRY_FLAGS.get(country, "")
WithFlag(country) ==
    IF country \in DOMAIN COUNTRY_FLAGS THEN COUNTRY_FLAGS[country] ELSE country

RECURSIVE CommLines(_)
CommLines(types) ==
    IF types = <<>> THEN <<>>
    ELSE <<Line("comm_type", Head(types))>> \o CommLines(Tail(types))

RECURSIVE QuestionLines(_, _)
\* the loop over COMMON_QUESTIONS + FINAL_QUESTIONS
QuestionLines(answers, questions) ==
    IF questions = <<>> THEN <<>>
    ELSE LET question == Head(questions)
         IN  (IF Has(answers, question)
              THEN <<Line("question", <<question>>)>>
                   \o (IF question = FINAL_QUESTIONS[2]
                       THEN CommLines(Split(answers[question]))
                       ELSE <<Line("answer", answers[question])>>)
              ELSE <<>>)
             \o QuestionLines(answers, Tail(questions))

\* the keys the assembly reads without a test: a missing one raises KeyError
AssemblyKeys == {K_DEADLINE, K_PRIORITY, K_AUDIENCE, K_REGION, COMMON_QUESTIONS[1]}

\* full_description of callback_handler, line by line
FullDescription(fs) ==
    LET answers == fs.answers
        region == FirstMatch(answers[K_REGION], REGION_CHOICES)
    IN  <<Line("timestamp", <<>>),
          Line("login", <<"CURRENT_USER">>),
          Line("deadline", <<ToString(answers[K_DEADLINE])>>),
          Line("priority", <<Upper(answers[K_PRIORITY])>>),
          Line("heading", <<"audience">>)>>
        \o (IF AudienceLines(fs.lists[answers[K_AUDIENCE]]) = <<>>
            THEN <<Line("audience", <<>>)>>
            ELSE AudienceLines(fs.lists[answers[K_AUDIENCE]]))
        \o <<Line("heading", <<"region">>)>>
        \o (IF region = <<>> THEN <<>> ELSE <<Line("region", region[1])>>)
        \o (IF Has(answers, REGION_SPECIFIC_QUESTIONS[1])
            THEN <<Line("country", WithFlag(answers[REGION_SPECIFIC_QUESTIONS[1]]))>>
            ELSE <<>>)
        \o (IF Has(answers, REGION_SPECIFIC_QUESTIONS[2])
            THEN <<Line("city", answers[REGION_SPECIFIC_QUESTIONS[2]])>>
            ELSE <<>>)
        \o QuestionLines(answers, COMMON_QUESTIONS \o FINAL_QUESTIONS)

\* the description of the empty ticket
EmptyDescription(message_text) ==
    <<Line("timestamp", <<>>),
      Line("login", <<"CURRENT_USER">>),
      Line("text", message_text)>>

(***************************************************************************)
(* Inputs.                                                                 *)
(***************************************************************************)
Users == {"u1", "u2"}

SoloUsers == {"u1"}

ShortText == <<"Fix", "banner">>

\* one word longer than the summary limit
LongText == <<LongWord>>

Texts == {ShortText, LongText}

InputAudience == {AUDIENCE_CHOICES[1], AUDIENCE_CHOICES[2]}

InputRegions == {REGION_CHOICES[1], REGION_CHOICES[8]}

\* Banner is a Users type only, Feed a Drivers type only; "I don't know" (a
\* region option) is a type of both catalogs
InputComm == {USER_COMMUNICATION_TYPES[4], DRIVER_COMMUNICATION_TYPES[6]}

Messages ==
    {GO_BACK, CANCEL, CREATE_TASK, EMPTY_TICKET, DONE_SELECTION}
    \cup InputAudience \cup InputRegions \cup InputComm \cup Texts

Dates == 0..MaxDate

Clock == 0..MaxNow

\* the months a rendered calendar's << and >> buttons name
Months ==
    {[year |-> InitCursor.year + ((InitCursor.month - 1 + k) \div 12),
      month |-> ((InitCursor.month - 1 + k) % 12) + 1] : k \in 0..MaxCursor}

Outcomes ==
    {Outcome("token", "issue", "json_dict", {}),
     Outcome("token", "empty", "json_dict", {}),
     Outcome("token", "http_error", "json_dict", {"errors"}),
     Outcome("token", "error", "not_json", {}),
     Outcome("error", "error", "not_json", {}),
     Outcome("no_token", "issue", "json_dict", {})}

(***************************************************************************)
(* The session registry and what an event leaves behind.                   *)
(***************************************************************************)
Reply(kind, text, keyboard) == [kind |-> kind, text |-> text, keyboard |-> keyboard]

NoData == [kind |-> "none", day |-> -1, year |-> 0, month |-> 0]

NoClock == 0 - 1

\* user_states[user_id].get('state')
StateOf(u) ==
    IF u \in DOMAIN user_states /\ Has(user_states[u], "state")
    THEN user_states[u].state ELSE "None"

\* flow: the flow the identity was in when the event arrived
Out(ev, u, replies) ==
    [ev |-> ev, user |-> u, flow |-> StateOf(u), data |-> NoData, clock |-> NoClock,
     replies |-> replies, calls |-> <<>>, requests |-> <<>>]

\* user_id in user_states and 'form_state' in user_states[user_id]
HasForm(u) == u \in DOMAIN user_states /\ Has(user_states[u], "form_state")

Form(u) == user_states[u].form_state

Collecting(fs) == [form_state |-> fs, state |-> "collecting_data"]

\* what go back is claimed to restore: the answers with the content of
\* answers['audience'], the current question, the queue, the selections and
\* the two phase flags
View(fs) ==
    [answers |-> IF Has(fs.answers, K_AUDIENCE)
                 THEN Put(fs.answers, K_AUDIENCE, Audience(fs)) ELSE fs.answers,
     current_question |-> fs.current_question,
     questions_queue |-> fs.questions_queue,
     selected_audience |-> fs.selected_audience,
     selected_region |-> fs.selected_region,
     awaiting_deadline |-> fs.awaiting_deadline,
     awaiting_communication_types |-> fs.awaiting_communication_types]

NoUndo == [phase |-> "none", before |-> View(NewFormState)]

\* the record as it was before the committing transition just made
Committed(fs) == [phase |-> "committed", before |-> View(fs)]

\* Set writing the entry to every identity that is in the registry
SetEveryone(u, entry, o, un) ==
    /\ user_states' = [v \in DOMAIN user_states \cup {u} |-> entry]
    /\ out' = o
    /\ undo' = un

Set(u, entry, o, un) ==
    /\ user_states' = Put(user_states, u, entry)
    /\ out' = o
    /\ undo' = un

\* what a record holds: every committed selection or answer adds one
Progress(fs) ==
    Len(Audience(fs)) + (IF fs.selected_audience THEN 1 ELSE 0)
    + Cardinality(DOMAIN fs.answers \ {K_AUDIENCE})
    + Len(fs.communication_types)

\* save_state is explored while the stack holds fewer than MaxExtra snapshots
\* more than the record holds
CanSave(fs) == Len(fs.previous_states) < Progress(fs) + MaxExtra

\* the answers explored are the texts of Texts, the one longer than the
\* summary limit as the answer the summary is cut from
CanAnswer(fs, text) ==
    /\ text \in Texts
    /\ CharLen(text) > SUMMARY_LIMIT => fs.current_question = COMMON_QUESTIONS[1]

Init ==
    /\ user_states = EmptyDict
    /\ out = Out("init", "", <<>>)
    /\ undo = NoUndo

(***************************************************************************)
(* Commands /start and /cancel.                                            *)
(***************************************************************************)
MenuReply == Reply("menu", <<>>, "start")

\* start(): the greeting, then user_states[user_id] = {}
CmdStart(u) ==
    Set(u, EmptyDict, Out("start", u, <<MenuReply>>), NoUndo)

\* cancel(): user_states[user_id] = {}
CmdCancel(u) ==
    Set(u, EmptyDict,
        Out("cancel", u, <<Reply("cancelled", <<>>, "create")>>),
        NoUndo)

(***************************************************************************)
(* handle_message: navigation buttons.                                     *)
(***************************************************************************)
MsgCancel(u, msg) ==
    /\ msg = CANCEL
    /\ Set(u, EmptyDict,
           Out("cancel", u, <<Reply("cancelled", <<>>, "create")>>), NoUndo)

\* handle_back without a record: start()
MsgGoBackNoRecord(u, msg) ==
    /\ msg = GO_BACK
    /\ ~HasForm(u)
    /\ Set(u, EmptyDict, Out("back_start", u, <<MenuReply>>), NoUndo)

\* the prompt handle_back sends for the restored record
BackReply(fs) ==
    IF ~fs.selected_audience THEN Reply("audience_prompt", <<>>, "audience")
    ELSE IF fs.selected_region = <<>> THEN Reply("region_prompt", <<>>, "region")
    ELSE IF fs.awaiting_deadline THEN Reply("calendar", <<>>, "calendar")
    ELSE IF fs.awaiting_communication_types
    THEN Reply("comm_prompt", <<>>,
               IF CommCatalog(fs) = USER_COMMUNICATION_TYPES
               THEN "comm_users" ELSE "comm_drivers")
    ELSE Reply("question", <<fs.current_question>>, "nav")

\* handle_back with a record whose history is not empty
MsgGoBack(u, msg) ==
    /\ msg = GO_BACK
    /\ HasForm(u)
    /\ Form(u).previous_states # <<>>
    /\ LET fs == go_back(Form(u))
       IN  Set(u, [user_states[u] EXCEPT !.form_state = fs],
               Out("back", u, <<BackReply(fs)>>),
               IF undo.phase = "committed" /\ out.user = u
               THEN [undo EXCEPT !.phase = "undone"] ELSE NoUndo)

\* Dispatched without the Cancel test
DispatchedCancelToo(u, msg) ==
    msg = GO_BACK => (HasForm(u) /\ Form(u).previous_states = <<>>)

\* the message goes on to the dispatch below: it is not Cancel, and Go back
\* only when handle_back returned False (a record with an empty history)
Dispatched(u, msg) ==
    /\ msg # CANCEL
    /\ msg = GO_BACK => (HasForm(u) /\ Form(u).previous_states = <<>>)

(***************************************************************************)
(* handle_message: the empty ticket.                                       *)
(***************************************************************************)
MsgEmptyTicket(u, msg) ==
    /\ Dispatched(u, msg)
    /\ msg = EMPTY_TICKET
    /\ Set(u, [form_state |-> NewFormState, state |-> "creating_empty_ticket",
               step |-> "name"],
           Out("empty_start", u, <<Reply("name_prompt", <<>>, "nav")>>),
           NoUndo)

InEmptyTicket(u, msg, step) ==
    /\ Dispatched(u, msg)
    /\ msg # EMPTY_TICKET
    /\ StateOf(u) = "creating_empty_ticket"
    /\ user_states[u].step = step

EmptyTicketName(u, msg) ==
    /\ InEmptyTicket(u, msg, "name")
    /\ Set(u, [form_state |-> Form(u), state |-> "creating_empty_ticket",
               step |-> "description", task_name |-> msg],
           Out("empty_name", u, <<Reply("description_prompt", <<>>, "nav")>>),
           NoUndo)

\* the replies after create_issue, by what the call did
ResultReplies(r, keyboard) ==
    IF r.result = "issue" THEN <<Reply("created", <<>>, keyboard)>>
    ELSE IF r.result = "empty" THEN <<Reply("failed", <<>>, keyboard)>>
    ELSE <<Reply("error", r.error, keyboard)>>

\* EmptyCall with the name passed whole as the summary
EmptyCallUncut(task_name, message_text) ==
    [queue |-> "YANGOCRM",
     summary |-> Slice(task_name, CharLen(task_name)),
     description |-> EmptyDescription(message_text),
     priority |-> "normal"]

\* the arguments of tracker.create_issue for the empty ticket
EmptyCall(task_name, message_text) ==
    [queue |-> "YANGOCRM",
     summary |-> Slice(task_name, SUMMARY_LIMIT),
     description |-> EmptyDescription(message_text),
     priority |-> "normal"]

\* EmptyTicketDescription keeping the record when create_issue raises
EmptyTicketDescriptionKeeps(u, msg, ocs) ==
    /\ InEmptyTicket(u, msg, "description")
    /\ \E call \in {EmptyCall(user_states[u].task_name, msg)} : \E oc \in ocs :
         \E r \in {create_issue(call.queue, call.summary, call.description,
                                call.priority, oc)} :
           Set(u, IF r.result = "raise" THEN user_states[u] ELSE EmptyDict,
               [Out("empty_submit", u, ResultReplies(r, "create_empty"))
                  EXCEPT !.calls = <<call>>, !.requests = r.requests],
               NoUndo)

\* the description step: the ticket; the record is dropped whatever
\* create_issue does (oc, one of ocs)
EmptyTicketDescription(u, msg, ocs) ==
    /\ InEmptyTicket(u, msg, "description")
    /\ \E call \in {EmptyCall(user_states[u].task_name, msg)} : \E oc \in ocs :
         \E r \in {create_issue(call.queue, call.summary, call.description,
                                call.priority, oc)} :
           Set(u, EmptyDict,
               [Out("empty_submit", u, ResultReplies(r, "create_empty"))
                  EXCEPT !.calls = <<call>>, !.requests = r.requests],
               NoUndo)

(***************************************************************************)
(* handle_message: the full survey.                                        *)
(***************************************************************************)
\* the message reaches the "Create Task" test
PastEmptyTicket(u, msg) ==
    /\ Dispatched(u, msg)
    /\ msg # EMPTY_TICKET
    /\ StateOf(u) # "creating_empty_ticket"

MsgCreateTask(u, msg) ==
    /\ PastEmptyTicket(u, msg)
    /\ msg = CREATE_TASK
    /\ Set(u, Collecting(NewFormState),
           Out("create_start", u, <<Reply("audience_prompt", <<>>, "audience")>>),
           NoUndo)

\* no record: start()
MsgNoRecord(u, msg) ==
    /\ PastEmptyTicket(u, msg)
    /\ msg # CREATE_TASK
    /\ ~HasForm(u)
    /\ Set(u, EmptyDict, Out("start", u, <<MenuReply>>), NoUndo)

\* the message reaches the dispatch on the record (state == 'collecting_data')
InSurvey(u, msg) ==
    /\ PastEmptyTicket(u, msg)
    /\ msg # CREATE_TASK
    /\ HasForm(u)
    /\ StateOf(u) = "collecting_data"

SelectedReply(msg, keyboard) == Reply("selected", msg, keyboard)

\* initial audience selection
AudienceFirst(u, msg) ==
    /\ InSurvey(u, msg)
    /\ ~Form(u).selected_audience
    /\ ~Has(Form(u).answers, K_AUDIENCE)
    /\ InList(msg, AUDIENCE_CHOICES)
    /\ CanSave(Form(u))
    /\ LET clean_text == StripFirstWord(msg)
           fs == SetAudience(save_state(Form(u)), clean_text)
       IN  Set(u, Collecting(fs),
               Out("audience_pick", u, <<SelectedReply(msg, "audience")>>),
               Committed(Form(u)))

\* AudienceMore without the test that the option is not yet selected
AudienceMoreNoCheck(u, msg) ==
    /\ InSurvey(u, msg)
    /\ ~Form(u).selected_audience
    /\ Has(Form(u).answers, K_AUDIENCE)
    /\ msg # DONE_SELECTION
    /\ InList(msg, AUDIENCE_CHOICES)
    /\ Len(Audience(Form(u))) < 3
    /\ Set(u, Collecting(AppendAudience(save_state(Form(u)), StripFirstWord(msg))),
           Out("audience_pick", u, <<SelectedReply(msg, "audience")>>),
           Committed(Form(u)))

\* additional audience selection: an audience option
AudienceMore(u, msg) ==
    /\ InSurvey(u, msg)
    /\ ~Form(u).selected_audience
    /\ Has(Form(u).answers, K_AUDIENCE)
    /\ msg # DONE_SELECTION
    /\ InList(msg, AUDIENCE_CHOICES)
    /\ LET clean_text == StripFirstWord(msg)
           new == ~InList(clean_text, Audience(Form(u)))
           fs == IF new
                 THEN AppendAudience(save_state(Form(u)), clean_text)
                 ELSE Form(u)
       IN  /\ new => CanSave(Form(u))
           /\ Set(u, Collecting(fs),
                  Out(IF new THEN "audience_pick" ELSE "audience_repeat", u,
                      <<SelectedReply(msg, "audience")>>),
                  IF new THEN Committed(Form(u)) ELSE NoUndo)

\* additional audience selection: Done
AudienceDone(u, msg) ==
    /\ InSurvey(u, msg)
    /\ ~Form(u).selected_audience
    /\ Has(Form(u).answers, K_AUDIENCE)
    /\ msg = DONE_SELECTION
    /\ IF Audience(Form(u)) = <<>>
       THEN Set(u, user_states[u],
                Out("audience_none", u,
                    <<Reply("audience_need_one", <<>>, "audience")>>),
                NoUndo)
       ELSE /\ CanSave(Form(u))
            /\ Set(u, Collecting([save_state(Form(u)) EXCEPT !.selected_audience = TRUE]),
                   Out("audience_done", u, <<Reply("region_prompt", <<>>, "region")>>),
                   Committed(Form(u)))

\* neither audience branch matches the message: the handler ends without a reply
AudienceIgnored(u, msg) ==
    /\ InSurvey(u, msg)
    /\ ~Form(u).selected_audience
    /\ ~InList(msg, AUDIENCE_CHOICES)
    /\ Has(Form(u).answers, K_AUDIENCE) => msg # DONE_SELECTION
    /\ Set(u, user_states[u], Out("audience_ignored", u, <<>>), NoUndo)

\* RegionPick comparing the option as sent, emoji included, with "All regions"
RegionPickRaw(u, msg) ==
    /\ InSurvey(u, msg)
    /\ Form(u).selected_audience
    /\ Form(u).selected_region = <<>>
    /\ InList(msg, REGION_CHOICES)
    /\ CanSave(Form(u))
    /\ LET clean_text == StripFirstWord(msg)
           queue == IF msg = <<"All", "regions">>
                    THEN COMMON_QUESTIONS \o FINAL_QUESTIONS
                    ELSE REGION_SPECIFIC_QUESTIONS \o COMMON_QUESTIONS \o FINAL_QUESTIONS
           fs == get_next_question(
                    [save_state(Form(u)) EXCEPT
                       !.selected_region = clean_text,
                       !.answers = Put(@, K_REGION, clean_text),
                       !.questions_queue = queue])
       IN  Set(u, Collecting(fs),
               Out("region_pick", u,
                   <<Reply("question", <<fs.current_question>>, "nav")>>),
               Committed(Form(u)))

\* region selection: a region option
RegionPick(u, msg) ==
    /\ InSurvey(u, msg)
    /\ Form(u).selected_audience
    /\ Form(u).selected_region = <<>>
    /\ InList(msg, REGION_CHOICES)
    /\ CanSave(Form(u))
    /\ LET clean_text == StripFirstWord(msg)
           queue == IF clean_text = <<"All", "regions">>
                    THEN COMMON_QUESTIONS \o FINAL_QUESTIONS
                    ELSE REGION_SPECIFIC_QUESTIONS \o COMMON_QUESTIONS \o FINAL_QUESTIONS
           fs == get_next_question(
                    [save_state(Form(u)) EXCEPT
                       !.selected_region = clean_text,
                       !.answers = Put(@, K_REGION, clean_text),
                       !.questions_queue = queue])
       IN  Set(u, Collecting(fs),
               Out("region_pick", u,
                   <<Reply("question", <<fs.current_question>>, "nav")>>),
               Committed(Form(u)))

\* RegionInvalid with a snapshot pushed before the reply
RegionInvalidSaves(u, msg) ==
    /\ InSurvey(u, msg)
    /\ Form(u).selected_audience
    /\ Form(u).selected_region = <<>>
    /\ ~InList(msg, REGION_CHOICES)
    /\ Set(u, Collecting(save_state(Form(u))),
           Out("region_invalid", u, <<Reply("region_invalid", <<>>, "region")>>),
           NoUndo)

\* region selection: anything else
RegionInvalid(u, msg) ==
    /\ InSurvey(u, msg)
    /\ Form(u).selected_audience
    /\ Form(u).selected_region = <<>>
    /\ ~InList(msg, REGION_CHOICES)
    /\ Set(u, user_states[u],
           Out("region_invalid", u, <<Reply("region_invalid", <<>>, "region")>>),
           NoUndo)

\* the record is past the region and its current question is the
\* communication types question
InCommQuestion(u, msg) ==
    /\ InSurvey(u, msg)
    /\ Form(u).selected_audience
    /\ Form(u).selected_region # <<>>
    /\ Form(u).current_question = FINAL_QUESTIONS[2]

CommKeyboard(fs) ==
    IF CommCatalog(fs) = USER_COMMUNICATION_TYPES THEN "comm_users" ELSE "comm_drivers"

\* the communication types question is current and the flag is down
CommEnter(u, msg) ==
    /\ InCommQuestion(u, msg)
    /\ ~Form(u).awaiting_communication_types
    /\ CanSave(Form(u))
    /\ LET fs == [save_state(Form(u)) EXCEPT !.awaiting_communication_types = TRUE]
       IN  Set(u, Collecting(fs),
               Out("comm_enter", u, <<Reply("comm_prompt", <<>>, CommKeyboard(fs))>>),
               NoUndo)

\* CommDoneEmpty committing the empty selection as Done with a selection does
CommDoneEmptyCommits(u, msg) ==
    /\ InCommQuestion(u, msg)
    /\ Form(u).awaiting_communication_types
    /\ msg = DONE_SELECTION
    /\ Form(u).communication_types = <<>>
    /\ CanSave(Form(u))
    /\ LET fs == [save_state(Form(u)) EXCEPT
                    !.answers = Put(@, Form(u).current_question,
                                    Join(Form(u).communication_types)),
                    !.awaiting_communication_types = FALSE,
                    !.awaiting_deadline = TRUE]
       IN  Set(u, Collecting(fs),
               Out("comm_done", u, <<Reply("calendar", <<>>, "calendar")>>),
               Committed(Form(u)))

\* Done with an empty working selection
CommDoneEmpty(u, msg) ==
    /\ InCommQuestion(u, msg)
    /\ Form(u).awaiting_communication_types
    /\ msg = DONE_SELECTION
    /\ Form(u).communication_types = <<>>
    /\ Set(u, user_states[u],
           Out("comm_none", u,
               <<Reply("comm_need_one", <<>>, CommKeyboard(Form(u)))>>),
           NoUndo)

\* Done with a selection
CommDone(u, msg) ==
    /\ InCommQuestion(u, msg)
    /\ Form(u).awaiting_communication_types
    /\ msg = DONE_SELECTION
    /\ Form(u).communication_types # <<>>
    /\ CanSave(Form(u))
    /\ LET fs == [save_state(Form(u)) EXCEPT
                    !.answers = Put(@, Form(u).current_question,
                                    Join(Form(u).communication_types)),
                    !.awaiting_communication_types = FALSE,
                    !.awaiting_deadline = TRUE]
       IN  Set(u, Collecting(fs),
               Out("comm_done", u, <<Reply("calendar", <<>>, "calendar")>>),
               Committed(Form(u)))

\* CommPick without the test that the type is not yet selected
CommPickNoCheck(u, msg) ==
    /\ InCommQuestion(u, msg)
    /\ Form(u).awaiting_communication_types
    /\ msg # DONE_SELECTION
    /\ InList(msg, CommCatalog(Form(u)))
    /\ CanSave(Form(u))
    /\ Len(Form(u).communication_types) < 3
    /\ LET fs == [save_state(Form(u)) EXCEPT !.communication_types = Append(@, msg)]
       IN  Set(u, Collecting(fs),
               Out("comm_pick", u, <<SelectedReply(msg, CommKeyboard(fs))>>),
               Committed(Form(u)))

\* an option of the catalog the audience selects
CommPick(u, msg) ==
    /\ InCommQuestion(u, msg)
    /\ Form(u).awaiting_communication_types
    /\ msg # DONE_SELECTION
    /\ InList(msg, CommCatalog(Form(u)))
    /\ CanSave(Form(u))
    /\ LET saved == save_state(Form(u))
           fs == IF ~InList(msg, saved.communication_types)
                 THEN [saved EXCEPT !.communication_types = Append(@, msg)]
                 ELSE saved
       IN  Set(u, Collecting(fs),
               Out("comm_pick", u, <<SelectedReply(msg, CommKeyboard(fs))>>),
               Committed(Form(u)))

\* no branch of the communication types question matches: no reply
CommIgnored(u, msg) ==
    /\ InCommQuestion(u, msg)
    /\ Form(u).awaiting_communication_types
    /\ msg # DONE_SELECTION
    /\ ~InList(msg, CommCatalog(Form(u)))
    /\ Set(u, user_states[u], Out("comm_ignored", u, <<>>), NoUndo)

\* "Handling questions": the answer to the current question
FreeText(u, msg) ==
    /\ InSurvey(u, msg)
    /\ Form(u).selected_audience
    /\ Form(u).selected_region # <<>>
    /\ Form(u).current_question # FINAL_QUESTIONS[2]
    /\ CanAnswer(Form(u), msg)
    /\ Form(u).current_question # "" => CanSave(Form(u))
    /\ LET answered == IF Form(u).current_question # ""
                       THEN [save_state(Form(u)) EXCEPT
                               !.answers = Put(@, Form(u).current_question, msg)]
                       ELSE Form(u)
           popped == get_next_question(answered)
           next_question == IF answered.questions_queue = <<>>
                            THEN "" ELSE popped.current_question
           fs == IF next_question = FINAL_QUESTIONS[2]
                 THEN [popped EXCEPT !.awaiting_communication_types = TRUE]
                 ELSE popped
       IN  Set(u, Collecting(fs),
               Out("answer", u,
                   IF next_question = "" THEN <<>>
                   ELSE IF next_question = FINAL_QUESTIONS[2]
                   THEN <<Reply("comm_prompt", <<>>, CommKeyboard(fs))>>
                   ELSE <<Reply("question", <<next_question>>, "nav")>>),
               IF Form(u).current_question # "" THEN Committed(Form(u)) ELSE NoUndo)

(***************************************************************************)
(* callback_handler: the calendar.                                         *)
(***************************************************************************)
DateData(d) == [kind |-> "date", day |-> d, year |-> 0, month |-> 0]

MonthData(m) == [kind |-> "month", day |-> -1, year |-> m.year, month |-> m.month]

IgnoreData == [kind |-> "ignore", day |-> -1, year |-> 0, month |-> 0]

Payloads == {IgnoreData} \cup {DateData(d) : d \in Dates} \cup {MonthData(m) : m \in Months}

\* the payloads of a press on a day of the calendar
DatePayloads == {data \in Payloads : data.kind = "date"}

Callback(ev, u, data, now, replies) ==
    [Out(ev, u, replies) EXCEPT !.data = data, !.clock = now]

\* the payload of a callback that is only answered: its kind
KindOf(data) == [NoData EXCEPT !.kind = data.kind]

\* the identity has no record: the query is answered, nothing else
CbNoRecord(u, data) ==
    /\ ~HasForm(u)
    /\ user_states' = user_states
    /\ out' = Callback("cb_no_record", u, KindOf(data), NoClock, <<>>)
    /\ undo' = NoUndo

\* CbNotAwaiting clearing the identity's entry as a submission does
CbNotAwaitingClears(u, data) ==
    /\ HasForm(u)
    /\ ~Form(u).awaiting_deadline
    /\ Set(u, EmptyDict, Callback("cb_not_awaiting", u, KindOf(data), NoClock, <<>>), NoUndo)

\* the record does not await the deadline
CbNotAwaiting(u, data) ==
    /\ HasForm(u)
    /\ ~Form(u).awaiting_deadline
    /\ Set(u, user_states[u], Callback("cb_not_awaiting", u, KindOf(data), NoClock, <<>>), NoUndo)

CbIgnore(u, data) ==
    /\ HasForm(u)
    /\ Form(u).awaiting_deadline
    /\ data.kind = "ignore"
    /\ Set(u, user_states[u], Callback("cb_ignore", u, KindOf(data), NoClock, <<>>), NoUndo)

\* CbDatePast with the date stored before it is validated
CbDatePastStores(u, data, now) ==
    /\ HasForm(u)
    /\ Form(u).awaiting_deadline
    /\ data.kind = "date"
    /\ data.day < Today(now)
    /\ CanSave(Form(u))
    /\ Set(u, [user_states[u] EXCEPT
                 !.form_state = [save_state(Form(u)) EXCEPT
                                   !.answers = Put(@, K_DEADLINE, data.day)]],
           Callback("date_past", u, data, now, <<Reply("past_date", <<>>, "calendar")>>),
           NoUndo)

\* a date before today: save_state has run, then the handler returns
CbDatePast(u, data, now) ==
    /\ HasForm(u)
    /\ Form(u).awaiting_deadline
    /\ data.kind = "date"
    /\ data.day < Today(now)
    /\ CanSave(Form(u))
    /\ Set(u, [user_states[u] EXCEPT !.form_state = save_state(Form(u))],
           Callback("date_past", u, data, now, <<Reply("past_date", <<>>, "calendar")>>),
           NoUndo)

\* the record when the ticket is assembled
Dated(fs, d, now) ==
    [save_state(fs) EXCEPT
       !.answers = Put(Put(@, K_DEADLINE, d), K_PRIORITY, calculate_priority(d, now)),
       !.awaiting_deadline = FALSE]

\* SurveyCall with the priority of the ticket left at the default
SurveyCallDefaultPriority(fs) ==
    [queue |-> "YANGOCRM",
     summary |-> Slice(fs.answers[COMMON_QUESTIONS[1]], SUMMARY_LIMIT),
     description |-> FullDescription(fs),
     priority |-> "normal"]

\* the arguments of tracker.create_issue in callback_handler
SurveyCall(fs) ==
    [queue |-> "YANGOCRM",
     summary |-> Slice(fs.answers[COMMON_QUESTIONS[1]], SUMMARY_LIMIT),
     description |-> FullDescription(fs),
     priority |-> fs.answers[K_PRIORITY]]

\* a date not before today: the deadline, the priority, the ticket; the
\* record is dropped whatever create_issue does (oc, one of ocs)
CbDateAccepted(u, data, now, ocs) ==
    /\ HasForm(u)
    /\ Form(u).awaiting_deadline
    /\ data.kind = "date"
    /\ ~(data.day < Today(now))
    /\ \E fs \in {Dated(Form(u), data.day, now)} :
         LET confirm == Reply("deadline_set",
                              <<ToString(data.day), fs.answers[K_PRIORITY]>>, "none")
         IN  IF AssemblyKeys \subseteq DOMAIN fs.answers
             THEN \E call \in {SurveyCall(fs)} : \E oc \in ocs :
                    \E r \in {create_issue(call.queue, call.summary,
                                           call.description, call.priority, oc)} :
                      Set(u, EmptyDict,
                          [Callback("date_accepted", u, data, now,
                                    <<confirm>> \o ResultReplies(r, "create"))
                             EXCEPT !.calls = <<call>>, !.requests = r.requests],
                          NoUndo)
             ELSE Set(u, EmptyDict,
                      Callback("date_accepted", u, data, now,
                               <<confirm, Reply("error", <<"KeyError">>, "create")>>),
                      NoUndo)

\* CbMonth with a snapshot pushed before the cursor moves
CbMonthSaves(u, data) ==
    /\ HasForm(u)
    /\ Form(u).awaiting_deadline
    /\ data.kind = "month"
    /\ CanSave(Form(u))
    /\ Set(u, [user_states[u] EXCEPT
                 !.form_state = [save_state(Form(u)) EXCEPT
                                   !.cursor = [year |-> data.year, month |-> data.month]]],
           Callback("month", u, data, NoClock, <<Reply("calendar_edit", <<>>, "calendar")>>),
           NoUndo)

\* month navigation: the cursor moves
CbMonth(u, data) ==
    /\ HasForm(u)
    /\ Form(u).awaiting_deadline
    /\ data.kind = "month"
    /\ Set(u, [user_states[u] EXCEPT
                 !.form_state.cursor = [year |-> data.year, month |-> data.month]],
           Callback("month", u, data, NoClock, <<Reply("calendar_edit", <<>>, "calendar")>>),
           NoUndo)

(***************************************************************************)
(* The specification: the events of one identity.                          *)
(***************************************************************************)
\* handle_message on one text message
HandleMessage(u, msg) ==
    \/ MsgCancel(u, msg)
    \/ MsgGoBackNoRecord(u, msg)
    \/ MsgGoBack(u, msg)
    \/ MsgEmptyTicket(u, msg)
    \/ EmptyTicketName(u, msg)
    \/ EmptyTicketDescription(u, msg, Outcomes)
    \/ MsgCreateTask(u, msg)
    \/ MsgNoRecord(u, msg)
    \/ AudienceFirst(u, msg)
    \/ AudienceMore(u, msg)
    \/ AudienceDone(u, msg)
    \/ AudienceIgnored(u, msg)
    \/ RegionPick(u, msg)
    \/ RegionInvalid(u, msg)
    \/ CommEnter(u, msg)
    \/ CommDoneEmpty(u, msg)
    \/ CommDone(u, msg)
    \/ CommPick(u, msg)
    \/ CommIgnored(u, msg)
    \/ FreeText(u, msg)

\* callback_handler on one button payload
HandleCallback(u, data) ==
    \/ CbNoRecord(u, data)
    \/ CbNotAwaiting(u, data)
    \/ CbIgnore(u, data)
    \/ CbMonth(u, data)
    \/ \E now \in Clock : CbDatePast(u, data, now)
    \/ \E now \in Clock : CbDateAccepted(u, data, now, Outcomes)

Event(u) ==
    \/ CmdStart(u)
    \/ CmdCancel(u)
    \/ \E msg \in Messages : HandleMessage(u, msg)
    \/ \E data \in Payloads : HandleCallback(u, data)

Next == \E u \in SoloUsers : Event(u)

Spec == Init /\ [][Next]_vars

(***************************************************************************)
(* The full survey driven by valid inputs only: "Create Task" when the     *)
(* identity has no record, then audience options, Done, a region, a text   *)
(* per question, communication types, Done, a date not before today.       *)
(***************************************************************************)
SurveyEvent(u) ==
    \/ \E msg \in {CREATE_TASK} : ~HasForm(u) /\ MsgCreateTask(u, msg)
    \/ \E msg \in InputAudience : AudienceFirst(u, msg)
    \/ \E msg \in InputAudience : AudienceMore(u, msg)
    \/ \E msg \in {DONE_SELECTION} : AudienceDone(u, msg)
    \/ \E msg \in InputRegions : RegionPick(u, msg)
    \/ \E msg \in Texts : FreeText(u, msg)
    \/ \E msg \in InputComm \cup {REGION_CHOICES[8]} : CommPick(u, msg)
    \/ \E msg \in {DONE_SELECTION} : CommDone(u, msg)
    \/ \E data \in DatePayloads, now \in Clock : CbDateAccepted(u, data, now, Outcomes)

SurveyNext == \E u \in SoloUsers : SurveyEvent(u)

SurveySpec == Init /\ [][SurveyNext]_vars

(***************************************************************************)
(* Two identities: their events interleave in any order. Each identity     *)
(* sends the navigation and start buttons, Done, one option of each        *)
(* catalog and one text, and presses dates of the calendar.                *)
(***************************************************************************)
DuoMessages ==
    {GO_BACK, CANCEL, CREATE_TASK, EMPTY_TICKET, DONE_SELECTION,
     AUDIENCE_CHOICES[1], REGION_CHOICES[1], USER_COMMUNICATION_TYPES[4], ShortText}

DuoOutcomes ==
    {Outcome("token", "issue", "json_dict", {}),
     Outcome("error", "error", "not_json", {})}

DuoEvent(u) ==
    \/ CmdStart(u)
    \/ CmdCancel(u)
    \/ \E msg \in DuoMessages : HandleMessage(u, msg)
    \/ \E data \in DatePayloads : CbNoRecord(u, data)
    \/ \E data \in DatePayloads : CbNotAwaiting(u, data)
    \/ \E data \in DatePayloads, now \in Clock : CbDatePast(u, data, now)
    \/ \E data \in DatePayloads, now \in Clock : CbDateAccepted(u, data, now, DuoOutcomes)

DuoNext == \E u \in Users : DuoEvent(u)

DuoSpec == Init /\ [][DuoNext]_vars

(***************************************************************************)
(* calculate_priority alone: Init draws a deadline date and an instant,    *)
(* the one action applies the function.                                    *)
(***************************************************************************)
PriorityInit ==
    /\ user_states = EmptyDict
    /\ undo = NoUndo
    /\ \E deadline \in 0..MaxDeadline, now \in 0..(2 * TicksPerDay - 1) :
         out = [ev |-> "priority_input", deadline |-> deadline, now |-> now,
                priority |-> ""]

PriorityApply ==
    /\ out.ev = "priority_input"
    /\ out' = [out EXCEPT !.ev = "priority",
                          !.priority = calculate_priority(out.deadline, out.now)]
    /\ UNCHANGED <<user_states, undo>>

PrioritySpec == PriorityInit /\ [][PriorityApply]_vars

(***************************************************************************)
(* create_issue alone: Init draws what the metadata service and the        *)
(* tracker answer, the one action applies the function. A JSON object with *)
(* none of the three fields stands for one with other keys, such as        *)
(* {"code": 500}: str() of it is the Python repr of the parsed value, not   *)
(* the text of the response.                                               *)
(***************************************************************************)
TrackerOutcomes ==
    {Outcome(cred, post, body, fields) :
       cred \in {"token", "no_token", "bad_status", "error"},
       post \in {"issue", "empty", "http_error", "error"},
       body \in {"not_json", "json_other", "json_dict"},
       fields \in SUBSET {"errors", "errorMessages", "message"}}

TrackerInit ==
    /\ user_states = EmptyDict
    /\ undo = NoUndo
    /\ \E oc \in TrackerOutcomes :
         out = [ev |-> "tracker_input", oc |-> oc,
                r |-> [requests |-> <<>>, result |-> "", error |-> <<>>]]

TrackerApply ==
    /\ out.ev = "tracker_input"
    /\ out' = [out EXCEPT
                 !.ev = "tracker",
                 !.r = create_issue("", Slice(ShortText, SUMMARY_LIMIT),
                                    EmptyDescription(ShortText), "normal", out.oc)]
    /\ UNCHANGED <<user_states, undo>>

TrackerSpec == TrackerInit /\ [][TrackerApply]_vars

(***************************************************************************)
(* Properties.                                                             *)
(***************************************************************************)
\* the record of the identity the last event was for
Last == Form(out.user)

NoDuplicates(list) == \A i, j \in DOMAIN list : list[i] = list[j] => i = j

Occurrences(x, list) == Cardinality({i \in DOMAIN list : list[i] = x})

\* C1: a go back sent right after a committing transition yields the record
\* the transition started from: answers (with the content of
\* answers['audience']), current question, queue, selections, phase flags
C1_GoBackUndoesCommit ==
    undo.phase = "undone" => (HasForm(out.user) /\ View(Last) = undo.before)

\* C2: answers['audience'] holds no value twice, every element is a catalog
\* audience option without its emoji, and the option just selected (anew or
\* again) is in it exactly once
C2_AudienceSetLike ==
    \A u \in DOMAIN user_states :
      HasForm(u) =>
        /\ \A k \in DOMAIN Form(u).lists :
             /\ NoDuplicates(Form(u).lists[k])
             /\ Range(Form(u).lists[k])
                  \subseteq {<<"Users">>, <<"Drivers">>, <<"Partner", "park">>}
        /\ (out.user = u /\ out.ev \in {"audience_pick", "audience_repeat"}) =>
             \E c \in Range(AUDIENCE_CHOICES) :
               /\ out.replies[1].text = c
               /\ Occurrences(SubSeq(c, 2, Len(c)), Audience(Form(u))) = 1

\* C2 witness: an option was selected again and the list holds two values
C2_Witness ==
    /\ out.ev = "audience_repeat"
    /\ HasForm(out.user)
    /\ Len(Audience(Last)) = 2

\* C3: after a region is accepted the questions to ask (the one prompted,
\* then the queue) are the common and final questions for "All regions" and
\* country, city, then the common and final questions for any other region
C3_RegionBranching ==
    out.ev = "region_pick" =>
      /\ HasForm(out.user)
      /\ Last.answers[K_REGION] = Last.selected_region
      /\ \E c \in Range(REGION_CHOICES) : Last.selected_region = SubSeq(c, 2, Len(c))
      /\ out.replies = <<Reply("question", <<Last.current_question>>, "nav")>>
      /\ <<Last.current_question>> \o Last.questions_queue =
           IF Last.selected_region = <<"All", "regions">>
           THEN COMMON_QUESTIONS \o FINAL_QUESTIONS
           ELSE <<"Which country?", "Which city?">> \o COMMON_QUESTIONS \o FINAL_QUESTIONS

\* C3 witness: "I don't know" was accepted as the region
C3_Witness ==
    /\ out.ev = "region_pick"
    /\ HasForm(out.user)
    /\ Last.selected_region = <<"I", "don't", "know">>
    /\ Last.current_question = "Which country?"

\* the catalog the audience selects, as C4 states it
C4_Catalog(fs) ==
    IF \E i \in DOMAIN Audience(fs) : Audience(fs)[i] = <<"Users">>
    THEN USER_COMMUNICATION_TYPES ELSE DRIVER_COMMUNICATION_TYPES

\* the record awaits communication types
AwaitingCommunicationTypes(u) ==
    /\ HasForm(u)
    /\ StateOf(u) = "collecting_data"
    /\ Form(u).current_question = FINAL_QUESTIONS[2]
    /\ Form(u).awaiting_communication_types

\* the options that exist only in the catalog the audience does not select
C4_OtherOnly(fs) ==
    {m \in Range(USER_COMMUNICATION_TYPES) \cup Range(DRIVER_COMMUNICATION_TYPES) :
       ~InList(m, C4_Catalog(fs))}

\* C4: while communication types are awaited, whatever is added to the
\* working selection is the message handled and is in the catalog the
\* audience selects; and a transition made by a text message (one without a
\* callback payload) that changes the working selection or the answers is
\* not the handling of an option that exists only in the other catalog
C4_CatalogByAudience ==
    [][\A u \in SoloUsers :
         AwaitingCommunicationTypes(u) =>
           LET before == Form(u).communication_types
               after == IF HasForm(u)' THEN Form(u)'.communication_types ELSE <<>>
           IN  /\ \A x \in Range(after) \ Range(before) :
                    /\ InList(x, C4_Catalog(Form(u)))
                    /\ HandleMessage(u, x)
               /\ (/\ out'.data.kind = "none"
                   /\ \/ ~HasForm(u)'
                      \/ after # before
                      \/ Form(u)'.answers # Form(u).answers
                      \/ Form(u)'.lists # Form(u).lists) =>
                    \A msg \in C4_OtherOnly(Form(u)) \cap Messages :
                      ~HandleMessage(u, msg)]_vars

\* C4 witness: a Users record holding the Users-only type has ignored a message
C4_Witness ==
    /\ out.ev = "comm_ignored"
    /\ HasForm(out.user)
    /\ InList(<<"Users">>, Audience(Last))
    /\ Last.communication_types = <<USER_COMMUNICATION_TYPES[4]>>

\* C5: a date callback for a date before the current UTC date, while the
\* deadline is awaited, leaves awaiting_deadline true and the answers as
\* they were, and makes no create-issue call
C5_PastDateRejected ==
    [][\A u \in SoloUsers :
         (/\ HasForm(u)
          /\ Form(u).awaiting_deadline
          /\ out'.user = u
          /\ out'.data.kind = "date"
          /\ out'.clock # NoClock
          /\ out'.data.day * TicksPerDay + TicksPerDay <= out'.clock) =>
           /\ HasForm(u)'
           /\ Form(u)'.awaiting_deadline
           /\ Form(u)'.answers = Form(u).answers
           /\ Form(u)'.lists = Form(u).lists
           /\ out'.calls = <<>>
           /\ out'.requests = <<>>]_vars

\* C5 witness: a past date was rejected
C5_Witness ==
    /\ out.ev = "date_past"
    /\ out.data.day < Today(out.clock)
    /\ HasForm(out.user)
    /\ Last.awaiting_deadline

\* the tier C6 states for d days between the current date and the deadline
C6_Tier(d) ==
    IF d < 3 THEN "blocker"
    ELSE IF d < 7 THEN "critical"
    ELSE IF d < 14 THEN "major"
    ELSE "normal"

\* C6: at any instant of the day calculate_priority returns the tier of
\* d = deadline date - current UTC date: blocker below 3, critical below 7,
\* major below 14, normal from 14 on
C6_PriorityByCalendarDays ==
    out.ev = "priority" =>
      out.priority = C6_Tier(out.deadline - (out.now \div TicksPerDay))

\* C7: a terminal transition makes exactly one create-issue call, sends at
\* most one POST, and leaves the identity without a record whatever the call
\* did
C7_OneAttemptThenNoRecord ==
    out.ev \in {"date_accepted", "empty_submit"} =>
      /\ Len(out.calls) = 1
      /\ Cardinality({i \in DOMAIN out.requests : out.requests[i].method = "POST"}) <= 1
      /\ ~HasForm(out.user)
      /\ out.user \in DOMAIN user_states
      /\ user_states[out.user] = EmptyDict

\* C7 witness: a terminal transition whose create-issue call raised
C7_Witness ==
    /\ out.ev \in {"date_accepted", "empty_submit"}
    /\ \E i \in DOMAIN out.replies : out.replies[i].kind = "error"
    /\ Len(out.calls) = 1

\* C8: a cancel event, in whatever state it arrives, leaves the identity
\* without a record and makes no create-issue call
C8_CancelDiscards ==
    [][\A u \in SoloUsers :
         (HandleMessage(u, CANCEL) \/ CmdCancel(u)) =>
           /\ user_states'[u] = EmptyDict
           /\ out'.ev = "cancel"
           /\ out'.calls = <<>>
           /\ out'.requests = <<>>]_vars

\* C8 witness: a cancel arrived in the empty ticket flow
C8_Witness ==
    /\ out.ev = "cancel"
    /\ out.flow = "creating_empty_ticket"
    /\ ~HasForm(out.user)

\* C9: go back on a record with an empty history changes nothing, makes no
\* create-issue call and re-renders the prompt; without a record it is a
\* fresh start
C9_GoBackOnEmptyHistory ==
    [][\A u \in SoloUsers :
         HandleMessage(u, GO_BACK) =>
           IF HasForm(u)
           THEN Form(u).previous_states = <<>> =>
                  /\ user_states' = user_states
                  /\ out'.calls = <<>>
                  /\ out'.replies # <<>>
           ELSE /\ user_states'[u] = EmptyDict
                /\ out'.replies = <<MenuReply>>]_vars

\* C10: "create task" always leaves a new full-survey record awaiting the
\* audience, "empty ticket" a new minimal-ticket record awaiting the name
C10_StartIsFresh ==
    [][\A u \in SoloUsers :
         /\ HandleMessage(u, CREATE_TASK) =>
              user_states'[u] = [form_state |-> NewFormState,
                                 state |-> "collecting_data"]
         /\ HandleMessage(u, EMPTY_TICKET) =>
              user_states'[u] = [form_state |-> NewFormState,
                                 state |-> "creating_empty_ticket",
                                 step |-> "name"]]_vars

\* C11: in the minimal ticket flow a name text N is only stored and answered
\* with the description prompt; the description text D that follows makes
\* one create-issue call with priority "normal", the summary N cut to at
\* most 100 characters and a description whose last line is D
C11_MinimalTicket ==
    [][\A u \in SoloUsers :
         StateOf(u) = "creating_empty_ticket" =>
           \A text \in Texts :
             HandleMessage(u, text) =>
               IF user_states[u].step = "name"
               THEN /\ StateOf(u)' = "creating_empty_ticket"
                    /\ user_states'[u].step = "description"
                    /\ user_states'[u].task_name = text
                    /\ out'.replies = <<Reply("description_prompt", <<>>, "nav")>>
                    /\ out'.calls = <<>>
               ELSE /\ Len(out'.calls) = 1
                    /\ out'.calls[1].priority = "normal"
                    /\ out'.calls[1].summary.text = user_states[u].task_name
                    /\ out'.calls[1].summary.chars =
                         IF CharLen(user_states[u].task_name) <= 100
                         THEN CharLen(user_states[u].task_name) ELSE 100
                    /\ out'.calls[1].description[Len(out'.calls[1].description)]
                         = [kind |-> "text", text |-> text]]_vars

\* C11 witness: a ticket was submitted whose name was longer than the limit
C11_Witness ==
    /\ out.ev = "empty_submit"
    /\ Len(out.calls) = 1
    /\ CharLen(out.calls[1].summary.text) > 100
    /\ out.calls[1].summary.chars = 100
    /\ out.calls[1].description[3].text \in Texts

\* the text of the one line of the given kind in a description
LineOf(description, kind) ==
    LET at == {i \in DOMAIN description : description[i].kind = kind}
    IN  IF Cardinality(at) = 1
        THEN description[CHOOSE i \in at : TRUE].text
        ELSE <<"not", "one", "line">>

\* C12: in a run of valid inputs only, no create-issue call is made before
\* the accepted date, and the accepted date makes exactly one, whose summary
\* is the answer to the first common question cut to at most 100 characters
\* and whose priority and "Priority:" line carry the tier computed for the
\* chosen deadline, blocker for the day after today
C12_SurveyEndToEnd ==
    [][\A u \in SoloUsers :
         IF out'.ev = "date_accepted" /\ out'.user = u
         THEN /\ HasForm(u)
              /\ Form(u).awaiting_deadline
              /\ Len(out'.calls) = 1
              /\ Has(Form(u).answers, COMMON_QUESTIONS[1])
              /\ out'.calls[1].summary.text = Form(u).answers[COMMON_QUESTIONS[1]]
              /\ out'.calls[1].summary.chars =
                   IF CharLen(Form(u).answers[COMMON_QUESTIONS[1]]) <= 100
                   THEN CharLen(Form(u).answers[COMMON_QUESTIONS[1]]) ELSE 100
              /\ out'.calls[1].priority
                   = calculate_priority(out'.data.day, out'.clock)
              /\ LineOf(out'.calls[1].description, "priority")
                   = <<Upper(out'.calls[1].priority)>>
              /\ out'.data.day = (out'.clock \div TicksPerDay) + 1 =>
                   out'.calls[1].priority = "blocker"
              /\ ~HasForm(u)'
         ELSE out'.calls = <<>> /\ out'.requests = <<>>]_vars

\* C12 witness: a run of valid inputs ended in a ticket for the day after
\* today whose summary was cut
C12_Witness ==
    /\ out.ev = "date_accepted"
    /\ out.data.day = (out.clock \div TicksPerDay) + 1
    /\ Len(out.calls) = 1
    /\ out.calls[1].priority = "blocker"
    /\ out.calls[1].summary.chars = 100
    /\ \E i \in DOMAIN out.replies : out.replies[i].kind = "created"

\* C13: an event for one identity leaves the registry entry of every other
\* identity as it was: present or absent as before, and with the same
\* record, history included
C13_SessionsIsolated ==
    [][\A a \in Users :
         out'.user = a =>
           \A b \in Users \ {a} :
             /\ (b \in DOMAIN user_states') = (b \in DOMAIN user_states)
             /\ b \in DOMAIN user_states => user_states'[b] = user_states[b]]_vars

\* C13 witness: the second identity has just submitted a minimal ticket
\* while the first is past the region question of its survey
C13_Witness ==
    /\ out.user = "u2"
    /\ out.ev = "empty_submit"
    /\ HasForm("u1")
    /\ StateOf("u1") = "collecting_data"
    /\ Form("u1").selected_region # <<>>
    /\ Form("u1").previous_states # <<>>

\* C14: create_issue sends the POST only with a credential obtained: when
\* the credential request raises, returns a non-success status or returns a
\* body without an access token, the call fails and no POST is sent
C14_NoPostWithoutCredential ==
    (out.ev = "tracker" /\ out.oc.cred # "token") =>
      /\ out.r.result = "raise"
      /\ \A i \in DOMAIN out.r.requests : out.r.requests[i].method # "POST"

\* the part of the response C15 says the message is made of
C15_Message(oc) ==
    IF oc.body = "json_dict" /\ "errors" \in oc.fields THEN "errors"
    ELSE IF oc.body = "json_dict" /\ "errorMessages" \in oc.fields THEN "errorMessages"
    ELSE IF oc.body = "json_dict" /\ "message" \in oc.fields THEN "message"
    ELSE "response.text"

\* C15: on a non-success status of the POST create_issue fails with a
\* message made of the 'errors' mapping if present, else of the
\* 'errorMessages' list, else of the 'message' field, and of the raw
\* response text in every other case
C15_ErrorMessageOrder ==
    (out.ev = "tracker" /\ out.oc.cred = "token" /\ out.oc.post = "http_error") =>
      /\ out.r.result = "raise"
      /\ out.r.error = <<"API Error", C15_Message(out.oc)>>

\* C16: the texts "Go back" and "Cancel" are never stored as an answer or
\* as the name of a minimal ticket, and are never the summary or a line of
\* the description of a create-issue call
C16_NavigationNeverStored ==
    /\ \A u \in DOMAIN user_states :
         /\ Has(user_states[u], "task_name") =>
              user_states[u].task_name \notin {GO_BACK, CANCEL}
         /\ HasForm(u) =>
              \A q \in Range(REGION_SPECIFIC_QUESTIONS \o COMMON_QUESTIONS
                             \o FINAL_QUESTIONS) \cap DOMAIN Form(u).answers :
                Form(u).answers[q] \notin {GO_BACK, CANCEL}
    /\ \A i \in DOMAIN out.calls :
         /\ out.calls[i].summary.text \notin {GO_BACK, CANCEL}
         /\ \A j \in DOMAIN out.calls[i].description :
              out.calls[i].description[j].text \notin {GO_BACK, CANCEL}

\* the message does not have the shape the state of the survey expects: any
\* text while the calendar is awaited, a text that is neither an audience
\* option nor Done in the audience phase, not a region option in the region
\* phase, neither an option of the catalog nor Done while communication
\* types are awaited
C17_Invalid(fs, msg) ==
    IF fs.awaiting_deadline THEN TRUE
    ELSE IF ~fs.selected_audience
    THEN msg \notin Range(AUDIENCE_CHOICES) \cup {DONE_SELECTION}
    ELSE IF fs.selected_region = <<>>
    THEN msg \notin Range(REGION_CHOICES)
    ELSE IF fs.awaiting_communication_types
    THEN msg \notin Range(C4_Catalog(fs)) \cup {DONE_SELECTION}
    ELSE FALSE

\* C17: in the full survey a message that is not a navigation or start
\* button and does not have the expected shape leaves the record and the
\* history as they were and is answered with a prompt
C17_InvalidInputReprompts ==
    [][\A u \in SoloUsers :
         (HasForm(u) /\ StateOf(u) = "collecting_data") =>
           \A msg \in Messages \ {GO_BACK, CANCEL, CREATE_TASK, EMPTY_TICKET} :
             (C17_Invalid(Form(u), msg) /\ HandleMessage(u, msg)) =>
               /\ user_states' = user_states
               /\ out'.calls = <<>>
               /\ out'.replies # <<>>]_vars

\* C18: a date callback for a date before the current UTC date, while the
\* deadline is awaited, leaves the history stack as it was
C18_PastDatePushesNothing ==
    [][\A u \in SoloUsers :
         (/\ HasForm(u)
          /\ Form(u).awaiting_deadline
          /\ out'.user = u
          /\ out'.data.kind = "date"
          /\ out'.clock # NoClock
          /\ out'.data.day < out'.clock \div TicksPerDay) =>
           /\ HasForm(u)'
           /\ Form(u)'.previous_states = Form(u).previous_states]_vars

\* C19: in the audience phase Done with no audience value selected leaves
\* the record and the history as they were and is answered with an error
\* re-prompt of the audience question; with at least one value selected it
\* finalizes the audience, keeps the values and prompts the region
C19_AudienceDone ==
    [][\A u \in SoloUsers :
         (/\ HasForm(u)
          /\ StateOf(u) = "collecting_data"
          /\ ~Form(u).selected_audience
          /\ HandleMessage(u, DONE_SELECTION)) =>
           IF Audience(Form(u)) = <<>>
           THEN /\ user_states' = user_states
                /\ Len(out'.replies) = 1
                /\ out'.replies[1].keyboard = "audience"
           ELSE /\ HasForm(u)'
                /\ Form(u)'.selected_audience
                /\ Audience(Form(u)') = Audience(Form(u))
                /\ out'.replies = <<Reply("region_prompt", <<>>, "region")>>]_vars

C21_CommDone ==
    [][\A u \in SoloUsers :
         /\ (HasForm(u)' /\ Has(Form(u)'.answers, FINAL_QUESTIONS[2])) =>
              /\ Form(u)'.answers[FINAL_QUESTIONS[2]] # <<>>
              /\ Split(Form(u)'.answers[FINAL_QUESTIONS[2]]) # <<>>
              /\ \A i \in DOMAIN Split(Form(u)'.answers[FINAL_QUESTIONS[2]]) :
                   Split(Form(u)'.answers[FINAL_QUESTIONS[2]])[i] # <<>>
         /\ (AwaitingCommunicationTypes(u) /\ HandleMessage(u, DONE_SELECTION)) =>
              IF Form(u).communication_types = <<>>
              THEN /\ user_states' = user_states
                   /\ out'.calls = <<>>
                   /\ Len(out'.replies) = 1
                   /\ out'.replies[1].kind = "comm_need_one"
              ELSE /\ HasForm(u)'
                   /\ Form(u)'.answers =
                        Put(Form(u).answers, FINAL_QUESTIONS[2],
                            Join(Form(u).communication_types))
                   /\ Split(Form(u)'.answers[FINAL_QUESTIONS[2]])
                        = Form(u).communication_types
                   /\ ~Form(u)'.awaiting_communication_types
                   /\ Form(u)'.awaiting_deadline
                   /\ out'.calls = <<>>]_vars

\* C21 witness: Done has committed a selection of two types
C21_Witness ==
    /\ out.ev = "comm_done"
    /\ HasForm(out.user)
    /\ Len(Last.communication_types) = 2
    /\ Last.answers[FINAL_QUESTIONS[2]] = Join(Last.communication_types)
    /\ Last.awaiting_deadline
    /\ ~Last.awaiting_communication_types

\* C22: communication_types holds no value twice, every element is an
\* option of the catalog the audience selects, as displayed (emoji
\* included); and after a type is selected the list is the list before the
\* selection (the snapshot the handler pushed) when the type was already in
\* it, and that list with the type appended otherwise
C22_CommSetLike ==
    \A u \in DOMAIN user_states :
      HasForm(u) =>
        /\ NoDuplicates(Form(u).communication_types)
        /\ \A i \in DOMAIN Form(u).communication_types :
             /\ InList(Form(u).communication_types[i], C4_Catalog(Form(u)))
             /\ Len(Form(u).communication_types[i]) >= 2
        /\ (out.user = u /\ out.ev = "comm_pick") =>
             /\ Form(u).previous_states # <<>>
             /\ LET before == Form(u).previous_states[Len(Form(u).previous_states)]
                                .communication_types
                    picked == out.replies[1].text
                IN  Form(u).communication_types =
                      IF InList(picked, before) THEN before ELSE Append(before, picked)

\* C22 witness: a type was selected a second time while two are selected
C22_Witness ==
    /\ out.ev = "comm_pick"
    /\ HasForm(out.user)
    /\ Len(Last.communication_types) = 2
    /\ Last.previous_states # <<>>
    /\ Last.previous_states[Len(Last.previous_states)].communication_types
         = Last.communication_types
    /\ InList(out.replies[1].text, Last.communication_types)

\* C23: a month navigation callback while the deadline is awaited changes
\* the calendar cursor only: the record afterwards is the record before with
\* the cursor at the month the payload names (answers, audience values,
\* current question, queue, selections, phase flags and history stack as
\* they were), the flow is as it was, and no create-issue call is made
C23_MonthMovesCursorOnly ==
    [][\A u \in SoloUsers :
         (/\ HasForm(u)
          /\ Form(u).awaiting_deadline
          /\ out'.user = u
          /\ out'.data.kind = "month") =>
           /\ user_states' =
                [user_states EXCEPT
                   ![u].form_state.cursor = [year |-> out'.data.year,
                                             month |-> out'.data.month]]
           /\ Form(u)'.answers = Form(u).answers
           /\ Form(u)'.lists = Form(u).lists
           /\ Form(u)'.previous_states = Form(u).previous_states
           /\ Form(u)'.awaiting_deadline
           /\ out'.calls = <<>>
           /\ out'.requests = <<>>]_vars

\* C23 witness: the calendar was moved away from the month it opened on
C23_Witness ==
    /\ out.ev = "month"
    /\ HasForm(out.user)
    /\ Last.cursor # InitCursor
    /\ Last.awaiting_deadline
    /\ Last.previous_states # <<>>

\* the record awaits the free text answer to its current question
AwaitingFreeText(u) ==
    /\ HasForm(u)
    /\ StateOf(u) = "collecting_data"
    /\ Form(u).selected_audience
    /\ Form(u).selected_region # <<>>
    /\ Form(u).current_question # ""
    /\ Form(u).current_question # FINAL_QUESTIONS[2]

\* the record after the text is accepted as the answer, as C24 states it
C24_Answered(fs, text) ==
    [fs EXCEPT
       !.answers = Put(@, fs.current_question, text),
       !.previous_states = Append(@, StateCopy(fs)),
       !.current_question = Head(fs.questions_queue),
       !.questions_queue = Tail(fs.questions_queue),
       !.awaiting_communication_types = (Head(fs.questions_queue) = FINAL_QUESTIONS[2])]

\* C24: while a free text answer is awaited, the handling of every text
\* other than "Go back" and "Cancel" stores the text as the answer to the
\* current question, pushes one snapshot of the record as it was and makes
\* the head of the queue the current question; the communication types
\* question is prompted with its catalog, any other as a free text question
C24_FreeTextVerbatim ==
    [][\A u \in SoloUsers :
         AwaitingFreeText(u) =>
           \A msg \in Messages \ {GO_BACK, CANCEL} :
             HandleMessage(u, msg) =>
               /\ Form(u).questions_queue # <<>>
               /\ user_states' =
                    [user_states EXCEPT ![u].form_state = C24_Answered(Form(u), msg)]
               /\ out'.calls = <<>>
               /\ Len(out'.replies) = 1
               /\ out'.replies[1].kind =
                    IF Form(u)'.current_question = FINAL_QUESTIONS[2]
                    THEN "comm_prompt" ELSE "question"]_vars

\* the question template of a region, as C25 states it
C25_Template(region) ==
    IF region = <<"All", "regions">>
    THEN COMMON_QUESTIONS \o FINAL_QUESTIONS
    ELSE REGION_SPECIFIC_QUESTIONS \o COMMON_QUESTIONS \o FINAL_QUESTIONS

IsSuffix(s, t) ==
    /\ Len(s) <= Len(t)
    /\ SubSeq(t, Len(t) - Len(s) + 1, Len(t)) = s

\* the questions still to ask: the current one, then the queue
C25_ToAsk(fs) ==
    (IF fs.current_question = "" THEN <<>> ELSE <<fs.current_question>>)
    \o fs.questions_queue

\* C25: in every full-survey record, after whatever events, either no
\* question is current, and then no region is selected and the queue is
\* empty, or a region is selected and the current question followed by the
\* queue is a non-empty suffix of the template of that region; and a
\* transition other than go back (one that does not shorten the history)
\* of a record with a region either keeps the current question and the
\* queue or makes the head of the queue current and removes it
C25_QueueFollowsTemplate ==
    [][\A u \in SoloUsers :
         (HasForm(u)' /\ StateOf(u)' = "collecting_data") =>
           /\ IF Form(u)'.current_question = ""
              THEN /\ Form(u)'.selected_region = <<>>
                   /\ Form(u)'.questions_queue = <<>>
              ELSE /\ Form(u)'.selected_region # <<>>
                   /\ IsSuffix(C25_ToAsk(Form(u)'),
                               C25_Template(Form(u)'.selected_region))
           /\ (/\ HasForm(u)
               /\ Form(u).selected_region # <<>>
               /\ Form(u)'.selected_region # <<>>
               /\ Len(Form(u)'.previous_states) >= Len(Form(u).previous_states)) =>
                \/ C25_ToAsk(Form(u)') = C25_ToAsk(Form(u))
                \/ C25_ToAsk(Form(u)') = Form(u).questions_queue]_vars

\* C25 witness: go back has made the city question current again
C25_Witness ==
    /\ out.ev = "back"
    /\ HasForm(out.user)
    /\ Last.current_question = REGION_SPECIFIC_QUESTIONS[2]
    /\ Last.questions_queue = COMMON_QUESTIONS \o FINAL_QUESTIONS
    /\ Has(Last.answers, REGION_SPECIFIC_QUESTIONS[1])

\* C26: all_questions_answered is true in every full-survey record whose
\* queue is exhausted and that holds the answer to the last question of its
\* template (the communication types), the record a ticket is submitted
\* from among them
C26_TerminalFlag ==
    \A u \in DOMAIN user_states :
      (/\ HasForm(u)
       /\ StateOf(u) = "collecting_data"
       /\ Form(u).selected_region # <<>>
       /\ Form(u).questions_queue = <<>>
       /\ Has(Form(u).answers, FINAL_QUESTIONS[2])) =>
        Form(u).all_questions_answered

\* a snapshot as go back would restore it from the record fs: its fields,
\* with the content of the list object its answers['audience'] refers to
SnapshotView(fs, snapshot) ==
    [snapshot EXCEPT
       !.answers = IF Has(snapshot.answers, K_AUDIENCE)
                   THEN Put(snapshot.answers, K_AUDIENCE,
                            fs.lists[snapshot.answers[K_AUDIENCE]])
                   ELSE snapshot.answers]

\* C27: a transition that keeps the record and does not shorten its history
\* leaves every snapshot on the stack with the content it had, and a
\* snapshot it pushes holds the record as it was before the transition
C27_SnapshotsImmutable ==
    [][\A u \in SoloUsers :
         (/\ HasForm(u)
          /\ HasForm(u)'
          /\ Len(Form(u)'.previous_states) >= Len(Form(u).previous_states)
          /\ SubSeq(Form(u)'.previous_states, 1, Len(Form(u).previous_states))
               = Form(u).previous_states) =>
           /\ \A i \in DOMAIN Form(u).previous_states :
                SnapshotView(Form(u)', Form(u)'.previous_states[i])
                  = SnapshotView(Form(u), Form(u).previous_states[i])
           /\ Len(Form(u)'.previous_states) = Len(Form(u).previous_states) + 1 =>
                SnapshotView(Form(u)',
                             Form(u)'.previous_states[Len(Form(u)'.previous_states)])
                  = SnapshotView(Form(u), StateCopy(Form(u)))]_vars

\* C28: in no record are awaiting_deadline and awaiting_communication_types
\* both true
C28_PhaseFlagsExclusive ==
    \A u \in DOMAIN user_states :
      HasForm(u) =>
        ~(Form(u).awaiting_deadline /\ Form(u).awaiting_communication_types)

\* C29: a date callback that is accepted, after whatever events came before,
\* finds a complete record: a non-empty audience, a region, an answer to
\* every question of the template of that region, a non-empty communication
\* types answer; the date is not before the current date, and the handler
\* makes one create-issue call that carries a priority tier, without reading
\* a missing answer
C29_SubmittedRecordComplete ==
    [][\A u \in SoloUsers :
         (out'.ev = "date_accepted" /\ out'.user = u) =>
           /\ HasForm(u)
           /\ Form(u).awaiting_deadline
           /\ Has(Form(u).answers, K_AUDIENCE)
           /\ Audience(Form(u)) # <<>>
           /\ Has(Form(u).answers, K_REGION)
           /\ Form(u).answers[K_REGION] # <<>>
           /\ Form(u).answers[K_REGION] = Form(u).selected_region
           /\ \A q \in Range(C25_Template(Form(u).answers[K_REGION])) :
                Has(Form(u).answers, q) /\ Form(u).answers[q] # <<>>
           /\ Form(u).answers[K_REGION] # <<"All", "regions">> =>
                /\ Has(Form(u).answers, "Which country?")
                /\ Has(Form(u).answers, "Which city?")
           /\ Split(Form(u).answers[FINAL_QUESTIONS[2]]) # <<>>
           /\ out'.data.day >= out'.clock \div TicksPerDay
           /\ Len(out'.calls) = 1
           /\ out'.calls[1].priority \in {"blocker", "critical", "major", "normal"}
           /\ \A i \in DOMAIN out'.replies : out'.replies[i].text # <<"KeyError">>]_vars

\* C29 witness: a ticket was submitted for the region "I don't know" with a
\* country, a city and two communication types
C29_Witness ==
    /\ out.ev = "date_accepted"
    /\ Len(out.calls) = 1
    /\ LineOf(out.calls[1].description, "country") \in Texts
    /\ LineOf(out.calls[1].description, "city") \in Texts
    /\ LineOf(out.calls[1].description, "region") = REGION_CHOICES[8]
    /\ Cardinality({i \in DOMAIN out.calls[1].description :
                      out.calls[1].description[i].kind = "comm_type"}) = 2

\* C30: a date or month callback for an identity that has no record, or
\* whose record (of the survey or of the minimal ticket) has
\* awaiting_deadline false, leaves the registry as it was, sends no message
\* and makes no create-issue call and no HTTP request
C30_StaleCalendarInert ==
    [][\A u \in SoloUsers :
         (/\ out'.user = u
          /\ out'.data.kind \in {"date", "month"}
          /\ ~(HasForm(u) /\ Form(u).awaiting_deadline)) =>
           /\ user_states' = user_states
           /\ out'.replies = <<>>
           /\ out'.calls = <<>>
           /\ out'.requests = <<>>]_vars

\* C30 witness: a date was pressed while the name of a minimal ticket was
\* awaited
C30_Witness ==
    /\ out.ev = "cb_not_awaiting"
    /\ out.data.kind = "date"
    /\ out.flow = "creating_empty_ticket"
    /\ HasForm(out.user)
    /\ user_states[out.user].step = "name"
    /\ ~Last.awaiting_deadline

=============================================================================
